---- MODULE Spec2Model ----
(***************************************************************************)
(* Model of the interactive canvas subsystem of desingUtil:                *)
(*   ImageCanvas (src/unnamed/part_001) hosted by EditPane                 *)
(*   (src/unnamed/part_005), the sketch canvas DrawingCanvas               *)
(*   (src/unnamed/part_002), and the App (src/unnamed/part_000) with the   *)
(*   panes it mounts by mode.                                              *)
(*                                                                         *)
(* Numbers.  The code computes in IEEE doubles; the model computes in      *)
(* exact rationals <<n, d>> (d > 0, lowest terms), so a result is the      *)
(* real-number value of the code's expression, without rounding error.     *)
(* Pointer coordinates, container sizes and natural image sizes are        *)
(* integers.  Math.hypot is never evaluated: the loop test  i < dist  is   *)
(* decided on the squares.                                                 *)
(*                                                                         *)
(* Images.  An image is identified by its natural size; natural sizes and  *)
(* container sizes are positive.  pending holds the Image objects whose    *)
(* onload has not fired; the effect of part_001:94-104 has no cleanup, so  *)
(* they fire in any order.                                                 *)
(*                                                                         *)
(* Container.  The container's size changes with window 'resize' events.   *)
(*                                                                         *)
(* Mask.  The mask canvas is modelled by whether it holds a stamp and by   *)
(* the number of circles the last handler stamped; the cursor position     *)
(* mousePos and the prompt texts are not modelled.                         *)
(*                                                                         *)
(* Service.  The external service is the environment: a call in flight     *)
(* resolves with an image or fails (a rejection, or a response without an  *)
(* image part, for which editImage throws).  calls holds the kinds of the  *)
(* calls in flight.  An image whose natural size is in JpegImages has a    *)
(* 'data:image/jpeg' URL, every other one a PNG URL.                       *)
(*                                                                         *)
(* Requests.  requests holds the promises the panes await (a generation,   *)
(* a mockup, a vectorization, a file read), each with the pane and the     *)
(* source it was started from and whether that pane instance is still      *)
(* mounted; they settle in any order.  URLs, files and results are         *)
(* sequences of strings.                                                   *)
(*                                                                         *)
(* out, stamps, gradient, served and lastOp observe the last handler that  *)
(* ran: what it exported, how many circles it stamped, the colour stops    *)
(* of its stamp, the request it answered, and its name.                    *)
(***************************************************************************)
EXTENDS Integers, Sequences, FiniteSets, TLC

(***************************************************************************)
(* Exact rational arithmetic (the model's stand-in for JS numbers).        *)
(***************************************************************************)
Abs(n) == IF n < 0 THEN -n ELSE n

RECURSIVE GCD(_, _)
GCD(a, b) == IF b = 0 THEN a ELSE GCD(b, a % b)

\* n/d in lowest terms with a positive denominator (d # 0).
Norm(n, d) ==
    LET g == GCD(Abs(n), Abs(d))
        s == IF d < 0 THEN -1 ELSE 1
    IN  <<(s * n) \div g, (s * d) \div g>>

R(i)       == <<i, 1>>
RAdd(a, b) == Norm(a[1] * b[2] + b[1] * a[2], a[2] * b[2])
RSub(a, b) == Norm(a[1] * b[2] - b[1] * a[2], a[2] * b[2])
RMul(a, b) == Norm(a[1] * b[1], a[2] * b[2])
RDiv(a, b) == Norm(a[1] * b[2], a[2] * b[1])
RLt(a, b)  == a[1] * b[2] < b[1] * a[2]
RLe(a, b)  == a[1] * b[2] <= b[1] * a[2]
RGt(a, b)  == RLt(b, a)
RGe(a, b)  == RLe(b, a)
RMax(a, b) == IF RLt(a, b) THEN b ELSE a
RHalf(a)   == RDiv(a, R(2))

\* Conversion of a non-negative number to a canvas dimension (WebIDL
\* unsigned long): the fraction is dropped.
ToUnsignedLong(a) == a[1] \div a[2]

(***************************************************************************)
(* Program constants and the input sets of the model.                      *)
(***************************************************************************)
HANDLE_SIZE == 12

MinSize == R(HANDLE_SIZE * 2)

\* The brush-size slider (min, max) and its initial value.
MinBrush == 5
MaxBrush == 150
DefaultBrush == 40

NoImage == [w |-> 0, h |-> 0]
NoPoint == <<>>
NoTool  == "none"

\* Natural sizes of the images that are loaded or returned by the service.
Images == { [w |-> 800, h |-> 600], [w |-> 50, h |-> 50] }

\* The images whose data URL starts with 'data:image/jpeg'.
JpegImages == { [w |-> 800, h |-> 600] }

\* Sizes the container element takes (clientWidth, clientHeight).
Containers == { [w |-> 400, h |-> 400], [w |-> 100, h |-> 100] }

\* Pointer positions in container coordinates.
Points == { <<60, 60>>, <<10, 10>>, <<130, 40>> }

\* The pointer positions of SpecCanvas.
CanvasPoints == { <<60, 60>>, <<130, 40>> }

\* Positions of the brush-size slider.
BrushSizes == { MinBrush, 8, 10, DefaultBrush, MaxBrush }

\* the values the hardness slider takes, in hundredths (part_005:253:
\* min 0.01, max 1, step 0.01)
Hardness == 1..100

\* the values of the brushHardness prop this model hands to ImageCanvas
\* (part_001:9, a number; spec section 3: hardness in [0,1])
HardnessProps == 0..100

DefaultHardness == 100

handles == {"t", "b", "l", "r", "tl", "tr", "bl", "br"}

\* aspectRatioPresets of EditPane: 'W:H' as <<W, H>>.
aspectRatioPresets == { <<1, 1>>, <<4, 3>>, <<16, 9>>, <<9, 16>> }

\* Values typed into the width / height inputs of "Resize & Canvas".
SizeInputs == { 0, 10, 100 }

\* The tools of EditPane.  "background" stands for every tool that the canvas
\* receives as null (background, relighting, skyReplace, textRemove, upscale).
Tools == {"inpainting", "expand", "resize", "background"}

\* The edit actions that send the current image itself, without an export of
\* the canvas (part_005:117-139, 150-166).
DirectEdits == {"removeBackground", "replaceBackground", "relight",
                "upscale", "removeText", "replaceSky"}

\* The most external-service calls the model keeps in flight.
MaxCalls == 2

\* The wider inputs of SpecFit: sizes 100, 200, ... 100*MaxDim per axis.
MaxDim == 3
FitDims == { 100 * k : k \in 1..MaxDim }
FitSizes == { [w |-> a, h |-> b] : a \in FitDims, b \in FitDims }
FitImages == Images \cup FitSizes
FitContainers == Containers \cup FitSizes

\* The largest width and height of the sketch canvas.
MaxSketch == 2

\* the pixels of the largest sketch canvas, <<x, y>>
Pixels == (0..(MaxSketch - 1)) \X (0..(MaxSketch - 1))

\* the widths and heights of the bounding box of the sketch canvas, in CSS
\* pixels: 1, 3/2, 2, ...
BoxSizes == { Norm(k, 2) : k \in 2..(2 * MaxSketch) }

ZeroRect == [x |-> R(0), y |-> R(0), width |-> R(0), height |-> R(0)]

VARIABLES
    \* ImageCanvas
    container,      \* containerRef.current.{clientWidth, clientHeight}
    imageEl,        \* the loaded image (its natural size) or NoImage
    pending,        \* images whose onload has not fired yet
    isDragging,     \* active handle or "none"
    canvasRect,
    imageDrawRect,
    isDrawing,
    lastPoint,      \* a point or NoPoint
    maskPainted,    \* TRUE when the mask canvas holds at least one stamp
    pressed,        \* the button went down on the container and neither a
                    \* release nor a leave of the container has followed
    \* EditPane
    image,          \* the src handed to ImageCanvas (an image, by its natural size)
    originalImage,  \* the revert snapshot
    isOriginal,     \* image === originalImage
    activeTool,
    brushSize,
    brushHardness,  \* in hundredths: 100 is the hardness 1
    isLoading,
    error,          \* TRUE when an error message is shown
    calls,          \* the external-service calls in flight: the sequence of their kinds
    \* DrawingCanvas: [width, height, ink, isDrawing, lastPoint]; width and
    \* height are those of the canvas element, ink is the set of inked pixels
    sketch,
    \* App: [mode, currentImage]
    app,
    \* the mounted instance of each pane (its initial state while the pane is
    \* not displayed): GeneratePane and DoodlePane [isLoading, error],
    \* MockupPane [designImage, resultImage, isLoading, error],
    \* VectorizePane [sourceImage, svgCode, isLoading, error]
    generatePane,
    doodlePane,
    mockupPane,
    vectorizePane,
    requests,       \* the promises the panes await: a sequence of
                    \* [pane, kind, source, live]
    \* observation
    out,            \* what the last handler exported (NoOut when it exported nothing)
    stamps,         \* the number of circles the last handler stamped into the mask
    gradient,       \* the colour stops of those circles (<<>> when none)
    served,         \* the request whose continuation the last step ran
                    \* (NoRequest when it ran none)
    lastOp          \* the name of the last handler that ran

vars == <<container, imageEl, pending, isDragging, canvasRect, imageDrawRect,
          isDrawing, lastPoint, maskPainted, pressed,
          image, originalImage, isOriginal, activeTool, brushSize, isLoading,
          error, calls, out, stamps, lastOp,
          brushHardness, gradient, served,
          sketch, app, generatePane, doodlePane, mockupPane, vectorizePane,
          requests>>

geomVars   == <<container, imageEl, pending, isDragging, canvasRect, imageDrawRect>>
paintVars  == <<isDrawing, lastPoint, maskPainted, pressed>>
paneVars   == <<image, originalImage, isOriginal, activeTool, brushSize, isLoading,
                error, calls>>

NoRequest == [pane |-> "none", kind |-> "none", source |-> <<"none">>, live |-> FALSE]

paneStates == <<generatePane, doodlePane, mockupPane, vectorizePane>>
appVars    == <<app, paneStates, requests>>
\* what no handler of ImageCanvas and no handler of EditPane modelled here writes
hostVars   == <<brushHardness, sketch, appVars>>
editorVars == <<geomVars, paintVars, paneVars>>

\* The result of an export: the pixel size and MIME type of the output, the
\* rectangle of the output in which the source image is drawn, and whether
\* the output carries mask strokes.
Export(kind, status, w, h, mime, rect, mask) ==
    [kind |-> kind, status |-> status, w |-> w, h |-> h, mime |-> mime,
     draw |-> rect, mask |-> mask]

NoOut == Export("none", "none", 0, 0, "none", ZeroRect, FALSE)

\* an export that threw
Thrown(kind) == Export(kind, "error", 0, 0, "none", ZeroRect, FALSE)

isExpandable == activeTool = "expand" \/ activeTool = "resize"

\* the paint handlers without their tool check
isPaintable_Always == TRUE

isPaintable  == activeTool = "inpainting"

\* fitImageToContainer with the comparison of line 63 reversed ("cover")
fitImageToContainer_Cover(img, c) ==
    LET containerWidth  == R(c.w)
        containerHeight == R(c.h)
        imageRatio      == RDiv(R(img.w), R(img.h))
        fitHeight0      == RDiv(containerWidth, imageRatio)
        over            == RLt(fitHeight0, containerHeight)
        fitWidth        == IF over THEN RMul(containerHeight, imageRatio)
                                   ELSE containerWidth
        fitHeight       == IF over THEN containerHeight ELSE fitHeight0
    IN  [x      |-> RHalf(RSub(containerWidth, fitWidth)),
         y      |-> RHalf(RSub(containerHeight, fitHeight)),
         width  |-> fitWidth,
         height |-> fitHeight]

(***************************************************************************)
(* fitImageToContainer (part_001:53-72)                                    *)
(***************************************************************************)
fitImageToContainer(img, c) ==
    LET containerWidth  == R(c.w)
        containerHeight == R(c.h)
        imageRatio      == RDiv(R(img.w), R(img.h))
        fitHeight0      == RDiv(containerWidth, imageRatio)
        over            == RGt(fitHeight0, containerHeight)
        fitWidth        == IF over THEN RMul(containerHeight, imageRatio)
                                   ELSE containerWidth
        fitHeight       == IF over THEN containerHeight ELSE fitHeight0
    IN  [x      |-> RHalf(RSub(containerWidth, fitWidth)),
         y      |-> RHalf(RSub(containerHeight, fitHeight)),
         width  |-> fitWidth,
         height |-> fitHeight]

InitEditor(Cs, Is) ==
    /\ container \in Cs
    /\ imageEl = NoImage
    /\ image \in Is
    /\ originalImage = image
    /\ isOriginal = TRUE
    /\ pending = {image}
    /\ isDragging = "none"
    /\ canvasRect = ZeroRect
    /\ imageDrawRect = ZeroRect
    /\ isDrawing = FALSE
    /\ lastPoint = NoPoint
    /\ maskPainted = FALSE
    /\ pressed = FALSE
    /\ activeTool = "inpainting"
    /\ brushSize = DefaultBrush
    /\ isLoading = FALSE
    /\ error = FALSE
    /\ calls = <<>>
    /\ out = NoOut
    /\ stamps = 0
    /\ lastOp = "init"
    /\ gradient = <<>>
    /\ served = NoRequest

\* Images, results and files of the panes are sequences of strings.
\* null (no image, no result)
NoUrl == <<"none">>

\* A promise a pane awaits: the pane that issued it, its kind ("generate"
\* for a call of the external service, "upload" for fileToBase64), the image
\* or file it was issued for, and whether the issuing instance of the pane
\* is still mounted.
Request(pane, kind, source, live) ==
    [pane |-> pane, kind |-> kind, source |-> source, live |-> live]

\* the files a user picks in an upload control
Files == {<<"file1">>, <<"file2">>}

\* fileToBase64 (geminiService.ts): the data URL of a file
fileToBase64(file) == <<"data">> \o file

\* the images the generation calls resolve with
Generated == {<<"generated1">>, <<"generated2">>}

\* what createMockup / vectorizeImage resolve with for a source image
ResultOf(source) == <<"result">> \o source

Modes == {"generate", "doodle", "edit", "mockup", "vectorize"}

\* useState initial values of App (part_000:12-13)
InitApp == app = [mode |-> "generate", currentImage |-> NoUrl]

\* useState initial values of GeneratePane (UploadPlaceholder.tsx:82-83) and
\* of DoodlePane (part_004:86-88)
FreshGenerate == [isLoading |-> FALSE, error |-> FALSE]

\* useState initial values of MockupPane (MockupPane.tsx:31-34)
FreshMockup ==
    [designImage |-> NoUrl, resultImage |-> NoUrl, isLoading |-> FALSE,
     error |-> FALSE]

\* useState initial values of VectorizePane (part_003:8-12)
FreshVectorize ==
    [sourceImage |-> NoUrl, svgCode |-> NoUrl, isLoading |-> FALSE,
     error |-> FALSE]

InitPanes ==
    /\ generatePane = FreshGenerate
    /\ doodlePane = FreshGenerate
    /\ mockupPane = FreshMockup
    /\ vectorizePane = FreshVectorize
    /\ requests = <<>>

\* DrawingCanvas after its mount effect (part_002:44-56) has sized the
\* canvas to a bounding box of width by height
FreshSketch(width, height) ==
    [width |-> width, height |-> height, ink |-> {}, isDrawing |-> FALSE,
     lastPoint |-> NoPoint]

InitWith(Cs, Is) ==
    /\ InitEditor(Cs, Is)
    /\ brushHardness = DefaultHardness
    /\ sketch = FreshSketch(1, 1)
    /\ InitApp
    /\ InitPanes

Init == InitWith(Containers, Images)

\* a handler of ImageCanvas or EditPane named op that exports nothing and
\* stamps nothing
Ran(op) ==
    /\ lastOp' = op
    /\ out' = NoOut
    /\ stamps' = 0
    /\ gradient' = <<>>
    /\ served' = NoRequest
    /\ UNCHANGED hostVars

(***************************************************************************)
(* ImageCanvas                                                             *)
(***************************************************************************)

\* img.onload without the redraw that sizes the mask canvas
ImageLoaded_KeepsMask(i) ==
    /\ i \in pending
    /\ pending' = pending \ {i}
    /\ imageEl' = i
    /\ imageDrawRect' = fitImageToContainer(i, container)
    /\ canvasRect' = fitImageToContainer(i, container)
    /\ Ran("load")
    /\ UNCHANGED <<container, isDragging>>
    /\ UNCHANGED paintVars
    /\ UNCHANGED paneVars

\* img.onload (part_001:98-103); the new imageEl makes the effect of
\* part_001:106-107 run redrawCanvas, which sizes and so clears the mask canvas
ImageLoaded(i) ==
    /\ i \in pending
    /\ pending' = pending \ {i}
    /\ imageEl' = i
    /\ imageDrawRect' = fitImageToContainer(i, container)
    /\ canvasRect' = fitImageToContainer(i, container)
    /\ maskPainted' = FALSE
    /\ Ran("load")
    /\ UNCHANGED <<container, isDragging, isDrawing, lastPoint, pressed>>
    /\ UNCHANGED paneVars

\* handleResize leaving canvasRect to the user
ContainerResize_KeepsCanvas(c) ==
    /\ container' = c
    /\ IF imageEl # NoImage
          THEN /\ imageDrawRect' = fitImageToContainer(imageEl, c)
               /\ maskPainted' = FALSE
          ELSE UNCHANGED <<imageDrawRect, maskPainted>>
    /\ UNCHANGED canvasRect
    /\ Ran("resize")
    /\ UNCHANGED <<imageEl, pending, isDragging, isDrawing, lastPoint, pressed>>
    /\ UNCHANGED paneVars

\* window 'resize' with the container taking size c: handleResize (part_001:108-115)
ContainerResize(c) ==
    /\ container' = c
    /\ IF imageEl # NoImage
          THEN /\ imageDrawRect' = fitImageToContainer(imageEl, c)
               /\ canvasRect' = fitImageToContainer(imageEl, c)
               /\ maskPainted' = FALSE
          ELSE UNCHANGED <<imageDrawRect, canvasRect, maskPainted>>
    /\ Ran("resize")
    /\ UNCHANGED <<imageEl, pending, isDragging, isDrawing, lastPoint, pressed>>
    /\ UNCHANGED paneVars

\* handle.includes(ch) for the eight handle names
includes(handle, ch) ==
    CASE ch = "r" -> handle \in {"r", "tr", "br"}
      [] ch = "l" -> handle \in {"l", "tl", "bl"}
      [] ch = "b" -> handle \in {"b", "bl", "br"}
      [] ch = "t" -> handle \in {"t", "tl", "tr"}

\* the updater without its Math.max
ClampSize_Off(v) == v

\* the final clamp of the setCanvasRect updater (part_001:210)
ClampSize(v) == RMax(v, MinSize)

\* the updater with the 'l' and 't' rules not moving the origin
DragRect_OriginKept(prev, handle, x, y) ==
    LET w1 == IF includes(handle, "r") THEN RSub(x, prev.x) ELSE prev.width
        w2 == IF includes(handle, "l") THEN RAdd(w1, RSub(prev.x, x)) ELSE w1
        h1 == IF includes(handle, "b") THEN RSub(y, prev.y) ELSE prev.height
        h2 == IF includes(handle, "t") THEN RAdd(h1, RSub(prev.y, y)) ELSE h1
    IN  [x |-> prev.x, y |-> prev.y,
         width |-> RMax(w2, MinSize), height |-> RMax(h2, MinSize)]

\* the updater with the 'l' and 't' rules moving the origin only
DragRect_SizeKept(prev, handle, x, y) ==
    LET w1 == IF includes(handle, "r") THEN RSub(x, prev.x) ELSE prev.width
        x2 == IF includes(handle, "l") THEN x ELSE prev.x
        h1 == IF includes(handle, "b") THEN RSub(y, prev.y) ELSE prev.height
        y2 == IF includes(handle, "t") THEN y ELSE prev.y
    IN  [x |-> x2, y |-> y2, width |-> ClampSize(w1), height |-> ClampSize(h1)]

\* the setCanvasRect updater of handleMouseMove (part_001:202-211)
DragRect(prev, handle, x, y) ==
    LET w1 == IF includes(handle, "r") THEN RSub(x, prev.x) ELSE prev.width
        w2 == IF includes(handle, "l") THEN RAdd(w1, RSub(prev.x, x)) ELSE w1
        x2 == IF includes(handle, "l") THEN x ELSE prev.x
        h1 == IF includes(handle, "b") THEN RSub(y, prev.y) ELSE prev.height
        h2 == IF includes(handle, "t") THEN RAdd(h1, RSub(prev.y, y)) ELSE h1
        y2 == IF includes(handle, "t") THEN y ELSE prev.y
    IN  [x |-> x2, y |-> y2, width |-> ClampSize(w2), height |-> ClampSize(h2)]

\* onMouseDown of a handle (part_001:185-189); handles exist only while
\* isExpandable, and while isLoading the overlay of part_005:221-226 covers them
handleMouseDownOnHandle(handle) ==
    /\ ~isLoading
    /\ isExpandable
    /\ isDragging' = handle
    /\ Ran("press")
    /\ UNCHANGED <<container, imageEl, pending, canvasRect, imageDrawRect>>
    /\ UNCHANGED paintVars
    /\ UNCHANGED paneVars

\* window 'mouseup' while a handle is active (part_001:191-193, 215-224)
handleMouseUp ==
    /\ isDragging # "none"
    /\ isDragging' = "none"
    /\ Ran("release")
    /\ UNCHANGED <<container, imageEl, pending, canvasRect, imageDrawRect>>
    /\ UNCHANGED paintVars
    /\ UNCHANGED paneVars

\* handleMouseMove resizing the image's rectangle along with canvasRect
handleMouseMove_MovesImage(p) ==
    /\ isDragging # "none"
    /\ canvasRect' = DragRect(canvasRect, isDragging, R(p[1]), R(p[2]))
    /\ imageDrawRect' = DragRect(canvasRect, isDragging, R(p[1]), R(p[2]))
    /\ Ran("drag")
    /\ UNCHANGED <<container, imageEl, pending, isDragging>>
    /\ UNCHANGED paintVars
    /\ UNCHANGED paneVars

\* window 'mousemove' while a handle is active (part_001:195-213)
handleMouseMove(p) ==
    /\ isDragging # "none"
    /\ canvasRect' = DragRect(canvasRect, isDragging, R(p[1]), R(p[2]))
    /\ Ran("drag")
    /\ UNCHANGED <<container, imageEl, pending, isDragging, imageDrawRect>>
    /\ UNCHANGED paintVars
    /\ UNCHANGED paneVars

\* the step of the stamping loop (part_001:175)
StrokeStep(size) == RMax(R(1), RDiv(R(size), R(10)))

\* the loop of draw (part_001:175-179): one stamp for every offset
\* i = 0, step, 2*step, ... with i < dist; as step >= 1 and
\* dist <= |dx| + |dy|, no offset beyond (|dx| + |dy|) * step is visited.
\* i < dist is decided as i*i < dist*dist.
LoopStamps(dx, dy, step) ==
    Cardinality({ k \in 0..(Abs(dx) + Abs(dy)) :
                    RLt(RMul(RMul(R(k), step), RMul(R(k), step)),
                        R(dx * dx + dy * dy)) })

\* draw without the interpolation loop: one stamp at the current position
StrokeStamps_EndOnly(from, to, size) == 1

\* the circles one draw call stamps (part_001:172-180): the loop, then one
\* more at the current position
StrokeStamps(from, to, size) ==
    LoopStamps(to[1] - from[1], to[2] - from[2], StrokeStep(size)) + 1

\* the colour stops of one stamp (part_001:131-141), offsets in hundredths:
\* solid at 0, solid at Math.max(0, brushHardness), transparent at 1
drawSoftCircle(hardness) ==
    << [offset |-> 0, solid |-> TRUE],
       [offset |-> IF hardness > 0 THEN hardness ELSE 0, solid |-> TRUE],
       [offset |-> 100, solid |-> FALSE] >>

\* onMouseDown of the container (part_001:148-157); while isLoading the
\* overlay of part_005:221-226 covers the container and takes the event
startDrawing(p) ==
    /\ ~isLoading
    /\ pressed' = TRUE
    /\ lastOp' = "startDrawing"
    /\ out' = NoOut
    /\ IF ~isPaintable
          THEN /\ stamps' = 0
               /\ gradient' = <<>>
               /\ served' = NoRequest
               /\ UNCHANGED <<isDrawing, lastPoint, maskPainted>>
          ELSE /\ isDrawing' = TRUE
               /\ lastPoint' = p
               /\ maskPainted' = TRUE
               /\ stamps' = 1
               /\ gradient' = drawSoftCircle(brushHardness)
               /\ served' = NoRequest
    /\ UNCHANGED geomVars
    /\ UNCHANGED paneVars
    /\ UNCHANGED hostVars

\* onMouseUp / onMouseLeave of the container (part_001:159-163)
stopDrawing ==
    /\ pressed' = FALSE
    /\ IF ~isPaintable
          THEN UNCHANGED <<isDrawing, lastPoint>>
          ELSE /\ isDrawing' = FALSE
               /\ lastPoint' = NoPoint
    /\ Ran("stopDrawing")
    /\ UNCHANGED maskPainted
    /\ UNCHANGED geomVars
    /\ UNCHANGED paneVars

\* onMouseMove of the container (part_001:165-183); while isLoading the
\* overlay of part_005:221-226 covers the container and takes the event
draw(p) ==
    /\ ~isLoading
    /\ lastOp' = "draw"
    /\ out' = NoOut
    /\ IF ~isDrawing \/ ~isPaintable \/ lastPoint = NoPoint
          THEN /\ stamps' = 0
               /\ gradient' = <<>>
               /\ served' = NoRequest
               /\ UNCHANGED paintVars
          ELSE /\ stamps' = StrokeStamps(lastPoint, p, brushSize)
               /\ gradient' = drawSoftCircle(brushHardness)
               /\ served' = NoRequest
               /\ maskPainted' = TRUE
               /\ lastPoint' = p
               /\ UNCHANGED <<isDrawing, pressed>>
    /\ UNCHANGED geomVars
    /\ UNCHANGED paneVars
    /\ UNCHANGED hostVars

\* setAspectRatio with the comparison of line 283 reversed
AspectRect_Crop(rect, ratio) ==
    LET targetRatio == RDiv(R(ratio[1]), R(ratio[2]))
        imgRatio    == RDiv(rect.width, rect.height)
        wide        == RLt(targetRatio, imgRatio)
        newH        == IF wide THEN rect.height ELSE RDiv(rect.width, targetRatio)
        newW        == IF wide THEN RMul(rect.height, targetRatio) ELSE rect.width
    IN  [x      |-> RSub(rect.x, RHalf(RSub(newW, rect.width))),
         y      |-> RSub(rect.y, RHalf(RSub(newH, rect.height))),
         width  |-> newW,
         height |-> newH]

\* setAspectRatio keeping the origin of imageDrawRect instead of its centre
AspectRect_OriginKept(rect, ratio) ==
    LET targetRatio == RDiv(R(ratio[1]), R(ratio[2]))
        imgRatio    == RDiv(rect.width, rect.height)
        wide        == RGt(targetRatio, imgRatio)
        newH        == IF wide THEN rect.height ELSE RDiv(rect.width, targetRatio)
        newW        == IF wide THEN RMul(rect.height, targetRatio) ELSE rect.width
    IN  [x |-> rect.x, y |-> rect.y, width |-> newW, height |-> newH]

\* the rectangle computed by setAspectRatio (part_001:277-294)
AspectRect(rect, ratio) ==
    LET targetRatio == RDiv(R(ratio[1]), R(ratio[2]))
        imgRatio    == RDiv(rect.width, rect.height)
        wide        == RGt(targetRatio, imgRatio)
        newH        == IF wide THEN rect.height ELSE RDiv(rect.width, targetRatio)
        newW        == IF wide THEN RMul(rect.height, targetRatio) ELSE rect.width
    IN  [x      |-> RSub(rect.x, RHalf(RSub(newW, rect.width))),
         y      |-> RSub(rect.y, RHalf(RSub(newH, rect.height))),
         width  |-> newW,
         height |-> newH]

\* canvasRect after setAspectRatio (part_001:274-295)
setAspectRatio(ratio) ==
    IF imageEl = NoImage THEN canvasRect ELSE AspectRect(imageDrawRect, ratio)

\* canvasRect after setExplicitCanvasSize (part_001:296-302)
setExplicitCanvasSize(width, height) ==
    [x      |-> RHalf(RSub(R(container.w), R(width))),
     y      |-> RHalf(RSub(R(container.h), R(height))),
     width  |-> R(width),
     height |-> R(height)]

\* src.startsWith('data:image/jpeg') ? 'image/jpeg' : 'image/png' (part_001:250)
mimeType(src) == IF src \in JpegImages THEN "image/jpeg" ELSE "image/png"

\* getCompositeImageWithMask sizing its canvas to the displayed image
getCompositeImageWithMask_Displayed ==
    IF imageEl = NoImage
      THEN Thrown("composite")
      ELSE Export("composite", "ok",
                  ToUnsignedLong(imageDrawRect.width),
                  ToUnsignedLong(imageDrawRect.height),
                  mimeType(image),
                  [x |-> R(0), y |-> R(0),
                   width |-> imageDrawRect.width, height |-> imageDrawRect.height],
                  maskPainted)

\* getCompositeImageWithMask (part_001:227-252): the output canvas has the
\* natural size, the image is drawn at (0, 0) unscaled, the mask canvas is
\* drawn over it, and the encoding follows the src prop
getCompositeImageWithMask ==
    IF imageEl = NoImage
      THEN Thrown("composite")
      ELSE Export("composite", "ok", imageEl.w, imageEl.h, mimeType(image),
                  [x |-> R(0), y |-> R(0),
                   width |-> R(imageEl.w), height |-> R(imageEl.h)],
                  maskPainted)

\* getFinalExpandedImage sizing its canvas to the container
getFinalExpandedImage_ContainerSized ==
    IF imageEl = NoImage
      THEN Thrown("final")
      ELSE Export("final", "ok", container.w, container.h, "image/png",
                  imageDrawRect, FALSE)

\* getFinalExpandedImage (part_001:253-273): the output canvas takes the size
\* of canvasRect (a canvas dimension is an unsigned long), the image is drawn
\* at its displayed size, offset by the origin of canvasRect; the mask canvas
\* is not drawn
getFinalExpandedImage ==
    IF imageEl = NoImage
      THEN Thrown("final")
      ELSE Export("final", "ok",
                  ToUnsignedLong(canvasRect.width),
                  ToUnsignedLong(canvasRect.height),
                  "image/png",
                  [x      |-> RSub(imageDrawRect.x, canvasRect.x),
                   y      |-> RSub(imageDrawRect.y, canvasRect.y),
                   width  |-> imageDrawRect.width,
                   height |-> imageDrawRect.height],
                  FALSE)

(***************************************************************************)
(* DrawingCanvas (part_002)                                                *)
(***************************************************************************)

\* a handler named op outside ImageCanvas and EditPane
Did(op) ==
    /\ lastOp' = op
    /\ out' = NoOut
    /\ stamps' = 0
    /\ gradient' = <<>>
    /\ served' = NoRequest
    /\ UNCHANGED editorVars
    /\ UNCHANGED brushHardness

\* pixel p lies on a canvas of width by height pixels
Inside(p, width, height) == p[1] < width /\ p[2] < height

\* resizeCanvas assigning width and height without the temporary canvas
resizeCanvas_NoSnapshot(width, height) ==
    /\ sketch' =
          IF R(sketch.width) # width \/ R(sketch.height) # height
             THEN [sketch EXCEPT !.width = ToUnsignedLong(width),
                                 !.height = ToUnsignedLong(height),
                                 !.ink = {}]
             ELSE sketch
    /\ Did("sketchResize")
    /\ UNCHANGED appVars

\* window 'resize' with the canvas element's bounding box width by height
\* (part_002:18-42): the canvas is copied to a temporary canvas of its size,
\* the assignments to canvas.width and canvas.height (unsigned long) clear
\* it, and the copy is drawn back at (0, 0)
resizeCanvas(width, height) ==
    /\ sketch' =
          IF R(sketch.width) # width \/ R(sketch.height) # height
             THEN LET tempCanvas == sketch.ink
                      w == ToUnsignedLong(width)
                      h == ToUnsignedLong(height)
                  IN  [sketch EXCEPT !.width = w, !.height = h,
                                     !.ink = {p \in tempCanvas : Inside(p, w, h)}]
             ELSE sketch
    /\ Did("sketchResize")
    /\ UNCHANGED appVars

\* onMouseDown / onTouchStart of the canvas at pixel p (part_002:70-74)
DrawingCanvas_startDrawing(p) ==
    /\ Inside(p, sketch.width, sketch.height)
    /\ sketch' = [sketch EXCEPT !.isDrawing = TRUE, !.lastPoint = p]
    /\ Did("sketchPress")
    /\ UNCHANGED appVars

\* onMouseUp / onMouseLeave / onTouchEnd (part_002:76-79)
DrawingCanvas_stopDrawing ==
    /\ sketch' = [sketch EXCEPT !.isDrawing = FALSE, !.lastPoint = NoPoint]
    /\ Did("sketchRelease")
    /\ UNCHANGED appVars

\* the pixels of the canvas on the straight line from a to b, both ends
\* included
Segment(a, b) ==
    { q \in Pixels :
        /\ (q[1] - a[1]) * (b[2] - a[2]) = (q[2] - a[2]) * (b[1] - a[1])
        /\ (q[1] - a[1]) * (q[1] - b[1]) <= 0
        /\ (q[2] - a[2]) * (q[2] - b[2]) <= 0 }

\* onMouseMove / onTouchMove at pixel p (part_002:81-93)
DrawingCanvas_draw(p) ==
    /\ Inside(p, sketch.width, sketch.height)
    /\ sketch' =
          IF ~sketch.isDrawing
             THEN sketch
             ELSE [sketch EXCEPT
                     !.ink = IF sketch.lastPoint # NoPoint
                                THEN { q \in sketch.ink \cup Segment(sketch.lastPoint, p) :
                                         Inside(q, sketch.width, sketch.height) }
                                ELSE sketch.ink,
                     !.lastPoint = p]
    /\ Did("sketchMove")
    /\ UNCHANGED appVars

\* clearCanvas (part_002:101-107), called by DoodlePane's Clear button
clearCanvas ==
    /\ sketch' = [sketch EXCEPT !.ink = {}]
    /\ Did("sketchClear")
    /\ UNCHANGED appVars

(***************************************************************************)
(* EditPane                                                                *)
(***************************************************************************)

\* handleToggleTool (part_005:85-87)
handleToggleTool(tool) ==
    /\ activeTool' = IF activeTool = tool THEN NoTool ELSE tool
    /\ Ran("toggle")
    /\ UNCHANGED geomVars
    /\ UNCHANGED paintVars
    /\ UNCHANGED <<image, originalImage, isOriginal, brushSize, isLoading, error, calls>>

\* the brush-size slider of the Inpainting accordion (part_005:245)
setBrushSize(size) ==
    /\ activeTool = "inpainting"
    /\ brushSize' = size
    /\ Ran("brush")
    /\ UNCHANGED geomVars
    /\ UNCHANGED paintVars
    /\ UNCHANGED <<image, originalImage, isOriginal, activeTool, isLoading, error, calls>>

\* the brush-hardness slider of the Inpainting accordion (part_005:253)
setBrushHardness(hardness) ==
    /\ activeTool = "inpainting"
    /\ brushHardness' = hardness
    /\ lastOp' = "hardness"
    /\ out' = NoOut
    /\ stamps' = 0
    /\ gradient' = <<>>
    /\ served' = NoRequest
    /\ UNCHANGED editorVars
    /\ UNCHANGED <<sketch, appVars>>

\* a preset button of the Expansion accordion (part_005:168-170, 265-269)
handleAspectRatioPreset(ratio) ==
    /\ activeTool = "expand"
    /\ canvasRect' = setAspectRatio(ratio)
    /\ Ran("aspect")
    /\ UNCHANGED <<container, imageEl, pending, isDragging, imageDrawRect>>
    /\ UNCHANGED paintVars
    /\ UNCHANGED paneVars

\* "Set Canvas Size" with the typed width and height (part_005:172-176, 288)
handleSetCanvasSize(width, height) ==
    /\ activeTool = "resize"
    /\ canvasRect' = IF width > 0 /\ height > 0
                        THEN setExplicitCanvasSize(width, height)
                        ELSE canvasRect
    /\ Ran("setSize")
    /\ UNCHANGED <<container, imageEl, pending, isDragging, imageDrawRect>>
    /\ UNCHANGED paintVars
    /\ UNCHANGED paneVars

\* the submit buttons without their disabled attribute
disabled_Never(loading) == FALSE

\* disabled={... || isLoading} of the submit buttons and of Revert
\* (part_005:256, 271, 291, 299, 303, 319, 327, 334, 341, 349)
disabled(loading) == loading

\* seq without its k-th element
Remove(seq, k) == SubSeq(seq, 1, k - 1) \o SubSeq(seq, k + 1, Len(seq))

\* executeEditAction with clearMask called before the await instead of after it
executeEditAction_ClearsMask(export, kind) ==
    /\ Len(calls) < MaxCalls
    /\ out' = export
    /\ stamps' = 0
    /\ gradient' = <<>>
    /\ served' = NoRequest
    /\ UNCHANGED hostVars
    /\ IF export.status = "error"
          THEN /\ error' = TRUE
               /\ isLoading' = FALSE
               /\ UNCHANGED calls
          ELSE /\ error' = FALSE
               /\ isLoading' = TRUE
               /\ calls' = Append(calls, kind)
    /\ maskPainted' = FALSE
    /\ UNCHANGED geomVars
    /\ UNCHANGED <<isDrawing, lastPoint, pressed>>
    /\ UNCHANGED <<image, originalImage, isOriginal, activeTool, brushSize>>

\* executeEditAction (part_005:89-103) up to the await of the service call:
\* the export runs first; when it throws, the catch and finally blocks run
\* before any other event.  The model keeps at most MaxCalls calls in flight.
executeEditAction(export, kind) ==
    /\ Len(calls) < MaxCalls
    /\ out' = export
    /\ stamps' = 0
    /\ gradient' = <<>>
    /\ served' = NoRequest
    /\ UNCHANGED hostVars
    /\ IF export.status = "error"
          THEN /\ error' = TRUE
               /\ isLoading' = FALSE
               /\ UNCHANGED calls
          ELSE /\ error' = FALSE
               /\ isLoading' = TRUE
               /\ calls' = Append(calls, kind)
    /\ UNCHANGED geomVars
    /\ UNCHANGED paintVars
    /\ UNCHANGED <<image, originalImage, isOriginal, activeTool, brushSize>>

\* "Apply Inpainting" (part_005:105-115, 256), with a prompt typed
handleEdit ==
    /\ activeTool = "inpainting"
    /\ ~disabled(isLoading)
    /\ lastOp' = "edit"
    /\ executeEditAction(getCompositeImageWithMask, "edit")

\* "Apply Expansion" / "Apply Resize & Fill" (part_005:141-148, 271, 291)
handleExpand ==
    /\ isExpandable
    /\ ~disabled(isLoading)
    /\ lastOp' = "expand"
    /\ executeEditAction(getFinalExpandedImage, "expand")

\* handleRemoveBackground, handleReplaceBackground, handleRelight,
\* handleUpscale, handleRemoveText, handleReplaceSky (part_005:117-139,
\* 150-166), with the prompt they need typed: the action sends the image
\* state itself and calls no export of the canvas
handleImageEdit(kind) ==
    /\ activeTool = "background"
    /\ ~disabled(isLoading)
    /\ lastOp' = "imageEdit"
    /\ executeEditAction(NoOut, kind)

\* a successful call also taking the place of the revert snapshot
ServiceReturns_OverwritesOriginal(k, i) ==
    /\ k \in 1..Len(calls)
    /\ image' = i
    /\ originalImage' = i
    /\ isOriginal' = FALSE
    /\ pending' = pending \cup {i}
    /\ maskPainted' = IF calls[k] = "edit" THEN FALSE ELSE maskPainted
    /\ isLoading' = FALSE
    /\ calls' = Remove(calls, k)
    /\ Ran("result")
    /\ UNCHANGED <<container, imageEl, isDragging, canvasRect, imageDrawRect>>
    /\ UNCHANGED <<isDrawing, lastPoint, pressed>>
    /\ UNCHANGED <<activeTool, brushSize, error>>

\* the k-th call in flight resolves with image i (part_005:95-96, 101;
\* geminiService.ts:54-59); handleEdit's action clears the mask before it
\* returns (part_005:111); the new src starts a load (part_001:94-97)
ServiceReturns(k, i) ==
    /\ k \in 1..Len(calls)
    /\ image' = i
    /\ isOriginal' = FALSE
    /\ pending' = pending \cup {i}
    /\ maskPainted' = IF calls[k] = "edit" THEN FALSE ELSE maskPainted
    /\ isLoading' = FALSE
    /\ calls' = Remove(calls, k)
    /\ Ran("result")
    /\ UNCHANGED <<container, imageEl, isDragging, canvasRect, imageDrawRect>>
    /\ UNCHANGED <<isDrawing, lastPoint, pressed>>
    /\ UNCHANGED <<originalImage, activeTool, brushSize, error>>

\* the failure handling clearing the mask as the success path does
ServiceFails_ClearsMask(k) ==
    /\ k \in 1..Len(calls)
    /\ error' = TRUE
    /\ isLoading' = FALSE
    /\ calls' = Remove(calls, k)
    /\ maskPainted' = FALSE
    /\ Ran("failure")
    /\ UNCHANGED geomVars
    /\ UNCHANGED <<isDrawing, lastPoint, pressed>>
    /\ UNCHANGED <<image, originalImage, isOriginal, activeTool, brushSize>>

\* the failure handling without the finally block
ServiceFails_KeepsLoading(k) ==
    /\ k \in 1..Len(calls)
    /\ error' = TRUE
    /\ calls' = Remove(calls, k)
    /\ Ran("failure")
    /\ UNCHANGED geomVars
    /\ UNCHANGED paintVars
    /\ UNCHANGED <<image, originalImage, isOriginal, activeTool, brushSize, isLoading>>

\* the k-th call in flight rejects, or its response has no image part and
\* editImage throws (part_005:97-101; geminiService.ts:54-61)
ServiceFails(k) ==
    /\ k \in 1..Len(calls)
    /\ error' = TRUE
    /\ isLoading' = FALSE
    /\ calls' = Remove(calls, k)
    /\ Ran("failure")
    /\ UNCHANGED geomVars
    /\ UNCHANGED paintVars
    /\ UNCHANGED <<image, originalImage, isOriginal, activeTool, brushSize>>

\* Revert with a reset that leaves the mask canvas as it is
handleRevert_KeepsMask ==
    /\ ~disabled(isLoading)
    /\ ~isOriginal
    /\ image' = originalImage
    /\ isOriginal' = TRUE
    /\ pending' = pending \cup {originalImage}
    /\ IF imageEl # NoImage
          THEN /\ imageDrawRect' = fitImageToContainer(imageEl, container)
               /\ canvasRect' = fitImageToContainer(imageEl, container)
          ELSE UNCHANGED <<imageDrawRect, canvasRect>>
    /\ Ran("reset")
    /\ UNCHANGED <<container, imageEl, isDragging>>
    /\ UNCHANGED paintVars
    /\ UNCHANGED <<originalImage, activeTool, brushSize, isLoading, error, calls>>

\* "Revert to Original" (part_005:189-192, 349) calling reset (part_001:310-316);
\* the new imageDrawRect makes the effect of part_001:106-107 run redrawCanvas,
\* which sizes and so clears the mask canvas
handleRevert ==
    /\ ~disabled(isLoading)
    /\ ~isOriginal
    /\ image' = originalImage
    /\ isOriginal' = TRUE
    /\ pending' = pending \cup {originalImage}
    /\ IF imageEl # NoImage
          THEN /\ imageDrawRect' = fitImageToContainer(imageEl, container)
               /\ canvasRect' = fitImageToContainer(imageEl, container)
               /\ maskPainted' = FALSE
          ELSE UNCHANGED <<imageDrawRect, canvasRect, maskPainted>>
    /\ Ran("reset")
    /\ UNCHANGED <<container, imageEl, isDragging, isDrawing, lastPoint, pressed>>
    /\ UNCHANGED <<originalImage, activeTool, brushSize, isLoading, error, calls>>

(***************************************************************************)
(* App and the panes it displays (part_000, UploadPlaceholder.tsx:79-154,  *)
(* part_004:85-162, MockupPane.tsx, part_003).  The prompt of a generation *)
(* is taken as typed.  At most MaxCalls promises are awaited at a time.    *)
(***************************************************************************)

\* a continuation of request r ran as the handler named op
Answered(op, r) ==
    /\ lastOp' = op
    /\ out' = NoOut
    /\ stamps' = 0
    /\ gradient' = <<>>
    /\ served' = r
    /\ UNCHANGED editorVars
    /\ UNCHANGED brushHardness

\* The requests left when the displayed pane unmounts: what GeneratePane,
\* DoodlePane and EditPane await ends in a call of the App's callback, which
\* runs whether or not the pane is mounted; what MockupPane and
\* VectorizePane await ends in state updates of the unmounted instance, which
\* do nothing, so those requests are forgotten.
Unmount(reqs) ==
    LET kept == SelectSeq(reqs, LAMBDA r : r.pane \notin {"mockup", "vectorize"})
    IN  [k \in 1..Len(kept) |-> [kept[k] EXCEPT !.live = FALSE]]

\* the pane displayed next mounts with its initial state (part_000:32-42)
MountFresh ==
    /\ generatePane' = FreshGenerate
    /\ doodlePane' = FreshGenerate
    /\ mockupPane' = FreshMockup
    /\ vectorizePane' = FreshVectorize
    /\ sketch' = FreshSketch(sketch.width, sketch.height)

\* handleModeChange leaving currentImage as it is
handleModeChange_KeepsImage(newMode) ==
    /\ app' = [app EXCEPT !.mode = newMode]
    /\ IF newMode # app.mode
          THEN /\ MountFresh
               /\ requests' = Unmount(requests)
          ELSE UNCHANGED <<paneStates, sketch, requests>>
    /\ Did("modeChange")

\* handleModeChange (part_000:15-20), called by the Header's buttons
\* (part_004:1-74), which are never disabled
handleModeChange(newMode) ==
    /\ app' = [mode |-> newMode,
               currentImage |-> IF newMode # "edit" THEN NoUrl
                                                    ELSE app.currentImage]
    /\ IF newMode # app.mode
          THEN /\ MountFresh
               /\ requests' = Unmount(requests)
          ELSE UNCHANGED <<paneStates, sketch, requests>>
    /\ Did("modeChange")

\* handleImageReadyForEdit (part_000:22-25) with rest the requests still
\* awaited; the displayed pane unmounts when the mode changes, and EditPane
\* remounts when its key, currentImage, changes (part_000:38)
handleImageReadyForEdit(imageUrl, rest) ==
    /\ app' = [mode |-> "edit", currentImage |-> imageUrl]
    /\ IF app.mode # "edit" \/ app.currentImage # imageUrl
          THEN /\ MountFresh
               /\ requests' = Unmount(rest)
          ELSE /\ UNCHANGED <<paneStates, sketch>>
               /\ requests' = rest

\* GeneratePane.handleGenerate up to its await (UploadPlaceholder.tsx:85-93);
\* the button is disabled while isLoading (UploadPlaceholder.tsx:132)
GeneratePane_handleGenerate ==
    /\ app.mode = "generate"
    /\ ~generatePane.isLoading
    /\ Len(requests) < MaxCalls
    /\ generatePane' = [isLoading |-> TRUE, error |-> FALSE]
    /\ requests' = Append(requests, Request("generate", "generate", NoUrl, TRUE))
    /\ Did("generate")
    /\ UNCHANGED <<app, doodlePane, mockupPane, vectorizePane, sketch>>

\* DoodlePane.handleGenerate up to its await (part_004:91-100); the button
\* is disabled while isLoading (part_004:140)
DoodlePane_handleGenerate ==
    /\ app.mode = "doodle"
    /\ ~doodlePane.isLoading
    /\ Len(requests) < MaxCalls
    /\ doodlePane' = [isLoading |-> TRUE, error |-> FALSE]
    /\ requests' = Append(requests, Request("doodle", "generate", NoUrl, TRUE))
    /\ Did("generate")
    /\ UNCHANGED <<app, generatePane, mockupPane, vectorizePane, sketch>>

\* generateImage / generateFromDoodle resolves with imageUrl for the k-th
\* request: onImageGenerated(imageUrl) is called, then setIsLoading(false)
\* (UploadPlaceholder.tsx:93-99, part_004:100-106); no line asks whether
\* the pane is still mounted
GenerationResolves(k, imageUrl) ==
    /\ k \in 1..Len(requests)
    /\ requests[k].kind = "generate"
    /\ requests[k].pane \in {"generate", "doodle"}
    /\ handleImageReadyForEdit(imageUrl, Remove(requests, k))
    /\ Answered("generated", requests[k])

\* the k-th generation rejects: setError, setIsLoading(false)
\* (UploadPlaceholder.tsx:95-99, part_004:102-106), which act on a mounted
\* instance only
GenerationRejects(k) ==
    /\ k \in 1..Len(requests)
    /\ requests[k].kind = "generate"
    /\ requests[k].pane \in {"generate", "doodle"}
    /\ generatePane' = IF requests[k].live /\ requests[k].pane = "generate"
                          THEN [isLoading |-> FALSE, error |-> TRUE]
                          ELSE generatePane
    /\ doodlePane' = IF requests[k].live /\ requests[k].pane = "doodle"
                        THEN [isLoading |-> FALSE, error |-> TRUE]
                        ELSE doodlePane
    /\ requests' = Remove(requests, k)
    /\ Answered("generationFailed", requests[k])
    /\ UNCHANGED <<app, mockupPane, vectorizePane, sketch>>

\* a file picked in the upload control of the displayed pane, up to the
\* await of fileToBase64: EditPane without an image (part_005:78-83,
\* 208-215), MockupPane (MockupPane.tsx:36-38, 72, 89) and VectorizePane
\* (part_003:14-16, 102), whose controls are not disabled while isLoading
handleFileUploaded(file) ==
    /\ \/ app.mode = "edit" /\ app.currentImage = NoUrl
       \/ app.mode \in {"mockup", "vectorize"}
    /\ Len(requests) < MaxCalls
    /\ requests' = Append(requests, Request(app.mode, "upload", file, TRUE))
    /\ Did("upload")
    /\ UNCHANGED <<app, paneStates, sketch>>

\* fileToBase64 resolves for the k-th request (reader.onload,
\* geminiService.ts:147): EditPane calls onImageUploaded (part_005:81),
\* MockupPane and VectorizePane store the new source and drop the result
\* (MockupPane.tsx:39-41, part_003:17-19)
FileRead(k) ==
    /\ k \in 1..Len(requests)
    /\ requests[k].kind = "upload"
    /\ LET r == requests[k]
           url == fileToBase64(r.source)
       IN  CASE r.pane = "edit" ->
                  handleImageReadyForEdit(url, Remove(requests, k))
             [] r.pane = "mockup" ->
                  /\ mockupPane' = [mockupPane EXCEPT !.designImage = url,
                                                     !.resultImage = NoUrl,
                                                     !.error = FALSE]
                  /\ requests' = Remove(requests, k)
                  /\ UNCHANGED <<app, generatePane, doodlePane, vectorizePane, sketch>>
             [] r.pane = "vectorize" ->
                  /\ vectorizePane' = [vectorizePane EXCEPT !.sourceImage = url,
                                                           !.svgCode = NoUrl,
                                                           !.error = FALSE]
                  /\ requests' = Remove(requests, k)
                  /\ UNCHANGED <<app, generatePane, doodlePane, mockupPane, sketch>>
    /\ Answered("fileRead", requests[k])

\* MockupPane.handleGenerate up to its await (MockupPane.tsx:45-54); the
\* template buttons are shown while there is no result and isLoading is
\* false (MockupPane.tsx:93-129)
MockupPane_handleGenerate ==
    /\ app.mode = "mockup"
    /\ mockupPane.designImage # NoUrl
    /\ mockupPane.resultImage = NoUrl
    /\ ~mockupPane.isLoading
    /\ Len(requests) < MaxCalls
    /\ mockupPane' = [mockupPane EXCEPT !.isLoading = TRUE, !.error = FALSE,
                                       !.resultImage = NoUrl]
    /\ requests' = Append(requests,
                          Request("mockup", "generate", mockupPane.designImage, TRUE))
    /\ Did("mockup")
    /\ UNCHANGED <<app, generatePane, doodlePane, vectorizePane, sketch>>

\* handleVectorize up to its await (part_003:23-32); the button is disabled
\* while isLoading (part_003:87)
handleVectorize ==
    /\ app.mode = "vectorize"
    /\ vectorizePane.sourceImage # NoUrl
    /\ ~vectorizePane.isLoading
    /\ Len(requests) < MaxCalls
    /\ vectorizePane' = [vectorizePane EXCEPT !.isLoading = TRUE, !.error = FALSE,
                                             !.svgCode = NoUrl]
    /\ requests' = Append(requests,
                          Request("vectorize", "generate", vectorizePane.sourceImage, TRUE))
    /\ Did("vectorize")
    /\ UNCHANGED <<app, generatePane, doodlePane, mockupPane, sketch>>

\* createMockup / vectorizeImage resolves for the k-th request with the
\* result for the image it was called with (MockupPane.tsx:54-55, 60;
\* part_003:32-33, 38)
SourceResolves(k) ==
    /\ k \in 1..Len(requests)
    /\ requests[k].kind = "generate"
    /\ requests[k].pane \in {"mockup", "vectorize"}
    /\ mockupPane' = IF requests[k].pane = "mockup"
                        THEN [mockupPane EXCEPT
                                !.resultImage = ResultOf(requests[k].source),
                                !.isLoading = FALSE]
                        ELSE mockupPane
    /\ vectorizePane' = IF requests[k].pane = "vectorize"
                           THEN [vectorizePane EXCEPT
                                   !.svgCode = ResultOf(requests[k].source),
                                   !.isLoading = FALSE]
                           ELSE vectorizePane
    /\ requests' = Remove(requests, k)
    /\ Answered("sourceResult", requests[k])
    /\ UNCHANGED <<app, generatePane, doodlePane, sketch>>

\* createMockup / vectorizeImage rejects for the k-th request
\* (MockupPane.tsx:56-60; part_003:34-38)
SourceRejects(k) ==
    /\ k \in 1..Len(requests)
    /\ requests[k].kind = "generate"
    /\ requests[k].pane \in {"mockup", "vectorize"}
    /\ mockupPane' = IF requests[k].pane = "mockup"
                        THEN [mockupPane EXCEPT !.error = TRUE, !.isLoading = FALSE]
                        ELSE mockupPane
    /\ vectorizePane' = IF requests[k].pane = "vectorize"
                           THEN [vectorizePane EXCEPT !.error = TRUE,
                                                      !.isLoading = FALSE]
                           ELSE vectorizePane
    /\ requests' = Remove(requests, k)
    /\ Answered("sourceFailed", requests[k])
    /\ UNCHANGED <<app, generatePane, doodlePane, sketch>>

\* "Edit in Editor" of MockupPane (MockupPane.tsx:64-68, 99)
handleEditResult ==
    /\ app.mode = "mockup"
    /\ mockupPane.resultImage # NoUrl
    /\ handleImageReadyForEdit(mockupPane.resultImage, requests)
    /\ Did("editResult")

(***************************************************************************)
(* Specifications.  Every one starts from the freshly mounted component    *)
(* and takes whole handlers as steps; they differ in the events that       *)
(* occur and in the sizes the inputs are drawn from.                       *)
(*   SpecDrag:  image load, container resize, tool switches and the        *)
(*              drag-handle gestures.                                      *)
(*   SpecPane:  image load, container resize, tool switches, the preset    *)
(*              and explicit-size buttons, the exports with the service    *)
(*              round trip, and revert.                                    *)
(*   SpecPaint: image load, container resize, tool switches, the brush     *)
(*              slider and the painting gestures.                          *)
(*   SpecFit:   image load, container resize, tool switches, the presets   *)
(*              and the explicit-size button, over the wider sizes         *)
(*              FitContainers and FitImages.                               *)
(*   SpecMask:  image load, container resize, tool switches, the painting  *)
(*              gestures with the initial brush over the positions         *)
(*              CanvasPoints, the submits with the service round trip,     *)
(*              and revert.                                                *)
(*   SpecCanvas: image load, container resize, tool switches, the          *)
(*              drag-handle gestures over the positions CanvasPoints, the  *)
(*              preset and explicit-size buttons.                          *)
(*   SpecBrush: tool switches, the hardness slider and the painting        *)
(*              gestures, for ImageCanvas mounted with any hardness in     *)
(*              [0, 1].                                                    *)
(*   SpecSketch: DrawingCanvas: window resizes, the drawing gestures and   *)
(*              Clear.                                                     *)
(*   SpecApp:   App and the panes it displays: mode changes, uploads,      *)
(*              generation, mockup and vectorize requests and their        *)
(*              answers.                                                   *)
(*   Spec:      every event of ImageCanvas and EditPane.                   *)
(***************************************************************************)
Mounting ==
    \/ \E i \in Images : ImageLoaded(i)
    \/ \E c \in Containers : ContainerResize(c)
    \/ \E t \in Tools : handleToggleTool(t)

Gestures ==
    \/ \E h \in handles : handleMouseDownOnHandle(h)
    \/ \E p \in Points : handleMouseMove(p)
    \/ handleMouseUp

Strokes ==
    \/ \E p \in Points : startDrawing(p)
    \/ \E p \in Points : draw(p)
    \/ stopDrawing

Painting ==
    \/ \E b \in BrushSizes : setBrushSize(b)
    \/ Strokes

Buttons ==
    \/ \E r \in aspectRatioPresets : handleAspectRatioPreset(r)
    \/ \E w \in SizeInputs, h \in SizeInputs : handleSetCanvasSize(w, h)

Submits ==
    \/ handleEdit
    \/ handleExpand
    \/ \E kind \in DirectEdits : handleImageEdit(kind)

Service ==
    \/ \E k \in 1..MaxCalls, i \in Images : ServiceReturns(k, i)
    \/ \E k \in 1..MaxCalls : ServiceFails(k)

EditFlow == Submits \/ Service \/ handleRevert

NextDrag  == Mounting \/ Gestures
NextBrush ==
    \/ \E t \in Tools : handleToggleTool(t)
    \/ \E hardness \in Hardness : setBrushHardness(hardness)
    \/ Strokes
NextPane  == Mounting \/ Buttons \/ EditFlow
NextPaint == Mounting \/ Painting
NextFit ==
    \/ \E i \in FitImages : ImageLoaded(i)
    \/ \E c \in FitContainers : ContainerResize(c)
    \/ \E t \in Tools : handleToggleTool(t)
    \/ \E r \in aspectRatioPresets : handleAspectRatioPreset(r)
    \/ \E w \in SizeInputs, h \in SizeInputs : handleSetCanvasSize(w, h)
NextMask ==
    \/ Mounting
    \/ \E p \in CanvasPoints : startDrawing(p)
    \/ \E p \in CanvasPoints : draw(p)
    \/ stopDrawing
    \/ EditFlow
NextCanvas ==
    \/ Mounting
    \/ \E h \in handles : handleMouseDownOnHandle(h)
    \/ \E p \in CanvasPoints : handleMouseMove(p)
    \/ handleMouseUp
    \/ Buttons
Next      == Mounting \/ Gestures \/ Painting \/ Buttons \/ EditFlow

SpecDrag  == Init /\ [][NextDrag]_vars

\* ImageCanvas mounted with any hardness of HardnessProps
InitBrush ==
    /\ InitEditor({[w |-> 400, h |-> 400]}, {[w |-> 800, h |-> 600]})
    /\ brushHardness \in HardnessProps
    /\ sketch = FreshSketch(1, 1)
    /\ InitApp
    /\ InitPanes

SpecBrush == InitBrush /\ [][NextBrush]_vars

NextSketch ==
    \/ \E width \in BoxSizes, height \in BoxSizes : resizeCanvas(width, height)
    \/ \E p \in Pixels : DrawingCanvas_startDrawing(p)
    \/ \E p \in Pixels : DrawingCanvas_draw(p)
    \/ DrawingCanvas_stopDrawing
    \/ clearCanvas

\* DrawingCanvas mounted in a bounding box of any size of BoxSizes
InitSketch ==
    /\ InitEditor({[w |-> 400, h |-> 400]}, {[w |-> 800, h |-> 600]})
    /\ brushHardness = DefaultHardness
    /\ \E width \in BoxSizes, height \in BoxSizes :
          sketch = FreshSketch(ToUnsignedLong(width), ToUnsignedLong(height))
    /\ InitApp
    /\ InitPanes

SpecSketch == InitSketch /\ [][NextSketch]_vars

NextApp ==
    \/ \E newMode \in Modes : handleModeChange(newMode)
    \/ GeneratePane_handleGenerate
    \/ DoodlePane_handleGenerate
    \/ \E k \in 1..MaxCalls, imageUrl \in Generated : GenerationResolves(k, imageUrl)
    \/ \E k \in 1..MaxCalls : GenerationRejects(k)
    \/ \E file \in Files : handleFileUploaded(file)
    \/ \E k \in 1..MaxCalls : FileRead(k)
    \/ MockupPane_handleGenerate
    \/ handleVectorize
    \/ \E k \in 1..MaxCalls : SourceResolves(k)
    \/ \E k \in 1..MaxCalls : SourceRejects(k)
    \/ handleEditResult

\* App at its first render
InitAppOnly == InitWith({[w |-> 400, h |-> 400]}, {[w |-> 800, h |-> 600]})

SpecApp == InitAppOnly /\ [][NextApp]_vars
SpecPane  == Init /\ [][NextPane]_vars
SpecPaint == Init /\ [][NextPaint]_vars
SpecFit   == InitWith(FitContainers, FitImages) /\ [][NextFit]_vars
SpecMask   == Init /\ [][NextMask]_vars
SpecCanvas == Init /\ [][NextCanvas]_vars
Spec      == Init /\ [][Next]_vars

\* SpecPane with every call to the external service settling: the promise
\* awaited at part_005:95 resolves or rejects, and its continuation runs
SpecPaneFair == SpecPane /\ WF_vars(Service)

(***************************************************************************)
(* Properties                                                              *)
(***************************************************************************)
TwoHandles == R(2 * HANDLE_SIZE)

AtLeastMinSize(rect) ==
    /\ RGe(rect.width, TwoHandles)
    /\ RGe(rect.height, TwoHandles)

Rect(x, y, width, height) ==
    [x |-> R(x), y |-> R(y), width |-> R(width), height |-> R(height)]

\* C1: after a drag move on any of the eight handles, with any pointer
\* position and from any rectangle, canvasRect is at least 24 wide and 24 high.
C1_MinSizeAfterDrag ==
    lastOp = "drag" => AtLeastMinSize(canvasRect)

\* a drag on a left or top handle that pushed the rectangle into the clamp
C1_Witness ==
    /\ lastOp = "drag"
    /\ isDragging \in {"l", "t", "tl"}
    /\ imageEl # NoImage
    /\ canvasRect.width = TwoHandles \/ canvasRect.height = TwoHandles

\* C2: canvasRect is at least 24 wide and 24 high in every reachable state;
\* stated here for the states in which an image is loaded, the ones in which
\* the rectangle is on screen around an image.
C2_MinSizeAlways ==
    imageEl # NoImage => AtLeastMinSize(canvasRect)

\* C3: for every container and every image of positive size, the fitted
\* rectangle has the image's aspect ratio, lies inside the container and is
\* centred on it; an 800x600 image in a 400x400 container is drawn at
\* {x: 0, y: 50, width: 400, height: 300}.
C3_FitCorrect ==
    imageEl # NoImage =>
        LET rect == imageDrawRect
            Wc   == R(container.w)
            Hc   == R(container.h)
        IN  /\ RMul(rect.width, R(imageEl.h)) = RMul(rect.height, R(imageEl.w))
            /\ RGe(rect.x, R(0))
            /\ RGe(rect.y, R(0))
            /\ RLe(RAdd(rect.x, rect.width), Wc)
            /\ RLe(RAdd(rect.y, rect.height), Hc)
            /\ RAdd(rect.x, RHalf(rect.width)) = RHalf(Wc)
            /\ RAdd(rect.y, RHalf(rect.height)) = RHalf(Hc)
            /\ (imageEl = [w |-> 800, h |-> 600] /\ container = [w |-> 400, h |-> 400]
                  => rect = Rect(0, 50, 400, 300))

\* the 800x600 image fitted into the 400x400 container
C3_Witness ==
    /\ imageEl = [w |-> 800, h |-> 600]
    /\ container = [w |-> 400, h |-> 400]
    /\ lastOp \in {"load", "resize"}
    /\ imageDrawRect = Rect(0, 50, 400, 300)

Contains(outer, inner) ==
    /\ RLe(outer.x, inner.x)
    /\ RLe(outer.y, inner.y)
    /\ RGe(RAdd(outer.x, outer.width), RAdd(inner.x, inner.width))
    /\ RGe(RAdd(outer.y, outer.height), RAdd(inner.y, inner.height))

\* C4: after setAspectRatio with an image loaded, canvasRect contains
\* imageDrawRect, whatever canvasRect was before.
C4_AspectContainsImage ==
    (lastOp = "aspect" /\ imageEl # NoImage) => Contains(canvasRect, imageDrawRect)

\* a preset that made the canvas strictly wider than the drawn image
C4_Witness ==
    /\ lastOp = "aspect"
    /\ imageEl # NoImage
    /\ RGt(canvasRect.width, imageDrawRect.width)
    /\ canvasRect.height = imageDrawRect.height

\* what C5 says setAspectRatio('W:H') leaves in canvasRect, given the drawn image
C5_Expected(rect, img, W, H) ==
    /\ IF W * img.height[1] * img.width[2] > H * img.width[1] * img.height[2]
          THEN /\ rect.height = img.height
               /\ RMul(rect.width, R(H)) = RMul(rect.height, R(W))
          ELSE /\ rect.width = img.width
               /\ RMul(rect.height, R(W)) = RMul(rect.width, R(H))
    /\ RAdd(rect.x, RHalf(rect.width)) = RAdd(img.x, RHalf(img.width))
    /\ RAdd(rect.y, RHalf(rect.height)) = RAdd(img.y, RHalf(img.height))
    /\ (img = Rect(0, 50, 400, 300) /\ W = 16 /\ H = 9
          => /\ rect.height = R(300)
             /\ rect.width = <<1600, 3>>)

\* C5: setAspectRatio('W:H') keeps the image's height and sets the width to
\* height*W/H when W/H exceeds the drawn image's ratio, otherwise keeps the
\* width and sets the height to width*H/W; the new canvasRect has the centre
\* of imageDrawRect.
C5_AspectRule ==
    [][(lastOp' = "aspect" /\ imageEl # NoImage) =>
          \A r \in aspectRatioPresets :
             handleAspectRatioPreset(r)
                => C5_Expected(canvasRect', imageDrawRect, r[1], r[2])]_vars

\* '16:9' applied to the image drawn at {0, 50, 400, 300}
C5_Witness ==
    /\ lastOp = "aspect"
    /\ imageDrawRect = Rect(0, 50, 400, 300)
    /\ canvasRect.height = R(300)
    /\ canvasRect.width = <<1600, 3>>
    /\ canvasRect.x = <<-200, 3>>

\* what C6 says a drag move to (px, py) with the given handle leaves in canvasRect
C6_Expected(prev, handle, px, py) ==
    LET hasR == handle \in {"r", "tr", "br"}
        hasL == handle \in {"l", "tl", "bl"}
        hasB == handle \in {"b", "bl", "br"}
        hasT == handle \in {"t", "tl", "tr"}
        width  == IF hasR THEN RSub(R(px), prev.x)
                  ELSE IF hasL THEN RAdd(prev.width, RSub(prev.x, R(px)))
                  ELSE prev.width
        height == IF hasB THEN RSub(R(py), prev.y)
                  ELSE IF hasT THEN RAdd(prev.height, RSub(prev.y, R(py)))
                  ELSE prev.height
    IN  [x      |-> IF hasL THEN R(px) ELSE prev.x,
         y      |-> IF hasT THEN R(py) ELSE prev.y,
         width  |-> IF RLt(width, R(24)) THEN R(24) ELSE width,
         height |-> IF RLt(height, R(24)) THEN R(24) ELSE height]

\* C6: a drag move applies the rule of each letter of the active handle and
\* then clamps width and height to 24; from {0, 0, 100, 100}, 'br' to (60, 60)
\* gives {0, 0, 60, 60} and then to (10, 10) gives width 24 and height 24.
C6_DragRule ==
    [][lastOp' = "drag" =>
          \A p \in Points :
             handleMouseMove(p) =>
                /\ canvasRect' = C6_Expected(canvasRect, isDragging, p[1], p[2])
                /\ (canvasRect = Rect(0, 0, 100, 100) /\ isDragging = "br" /\ p = <<60, 60>>
                      => canvasRect' = Rect(0, 0, 60, 60))
                /\ (canvasRect = Rect(0, 0, 60, 60) /\ isDragging = "br" /\ p = <<10, 10>>
                      => canvasRect' = Rect(0, 0, 24, 24))]_vars

\* the end of the scenario: 'br' dragged to (60, 60)
C6_Witness ==
    /\ lastOp = "drag"
    /\ isDragging = "br"
    /\ imageDrawRect = Rect(0, 0, 100, 100)
    /\ canvasRect = Rect(0, 0, 60, 60)

\* the squared distance of two points
DistSq(a, b) == (b[1] - a[1]) * (b[1] - a[1]) + (b[2] - a[2]) * (b[2] - a[2])

\* a draw call that stamps a segment from lastPoint to p, longer than the brush diameter
C7_FarSegment(p) ==
    /\ draw(p)
    /\ isDrawing /\ isPaintable /\ lastPoint # NoPoint
    /\ brushSize \in MinBrush..MaxBrush
    /\ DistSq(lastPoint, p) > brushSize * brushSize

\* C7 as claimed: one stroke segment stamps at least distance / (brushSize/10)
\* circles, that is (stamps * brushSize)^2 >= 100 * distance^2.
C7_StampsPerTenth ==
    [][lastOp' = "draw" =>
          \A p \in Points :
             C7_FarSegment(p) =>
                (stamps' * brushSize) * (stamps' * brushSize)
                   >= 100 * DistSq(lastPoint, p)]_vars

\* C7 as amended: one stroke segment stamps at least
\* distance / max(1, brushSize/10) circles.
C7_StampsPerStep ==
    [][lastOp' = "draw" =>
          \A p \in Points :
             C7_FarSegment(p) =>
                IF brushSize < 10
                  THEN stamps' * stamps' >= DistSq(lastPoint, p)
                  ELSE (stamps' * brushSize) * (stamps' * brushSize)
                          >= 100 * DistSq(lastPoint, p)]_vars

\* a segment of length sqrt(5000) stamped with the smallest brush: 71 + 1 circles
C7_Witness ==
    /\ lastOp = "draw"
    /\ brushSize = MinBrush
    /\ isDrawing
    /\ stamps = 72

\* C8: the mask-overlay export has the pixel size of the loaded image,
\* whatever the container, imageDrawRect and canvasRect are.
C8_CompositeNativeSize ==
    (lastOp = "edit" /\ out.status = "ok") =>
        /\ out.kind = "composite"
        /\ out.w = imageEl.w
        /\ out.h = imageEl.h

\* an export taken while the image is displayed at another size than its own
\* and canvasRect has been moved away from imageDrawRect
C8_Witness ==
    /\ lastOp = "edit"
    /\ out.status = "ok"
    /\ imageDrawRect.width # R(imageEl.w)
    /\ canvasRect # imageDrawRect

\* C9: before an image has loaded, getCompositeImageWithMask and
\* getFinalExpandedImage report an error and produce no output, and neither
\* they nor setAspectRatio nor setExplicitCanvasSize change canvasRect or
\* imageDrawRect.
C9_FailFastBeforeLoad ==
    [][imageEl = NoImage =>
          /\ lastOp' \in {"edit", "expand"} => (out'.status = "error" /\ error')
          /\ lastOp' \in {"edit", "expand", "aspect", "setSize"}
                => (canvasRect' = canvasRect /\ imageDrawRect' = imageDrawRect)]_vars

\* C10: an explicit size entry with a width or height that is not positive or
\* is below 24 leaves canvasRect unchanged and raises a validation signal.
C10_SmallSizeRejected ==
    [][lastOp' = "setSize" =>
          \A w \in SizeInputs, h \in SizeInputs :
             (handleSetCanvasSize(w, h) /\ (w < 2 * HANDLE_SIZE \/ h < 2 * HANDLE_SIZE))
                => (canvasRect' = canvasRect /\ error')]_vars

\* the viewport state: the src, the loaded image, both rectangles and the mask
Viewport == <<image, imageEl, imageDrawRect, canvasRect, maskPainted>>

\* C11: when the external call of an edit action fails (it rejects, or its
\* response has no image part), or the export throws, the pane shows the
\* error and stops loading, and the source image, imageDrawRect, canvasRect
\* and the mask are what they were; a failure right after the submit leaves
\* the export equal to the one that was submitted, so the submit can be retried.
C11_FailureKeepsViewport ==
    [][/\ lastOp' = "failure" =>
             /\ error' /\ ~isLoading'
             /\ Viewport' = Viewport
             /\ pending' = pending
             /\ lastOp = "edit" => getCompositeImageWithMask' = out
             /\ lastOp = "expand" => getFinalExpandedImage' = out
       /\ (lastOp' \in {"edit", "expand"} /\ out'.status = "error") =>
             /\ error' /\ ~isLoading'
             /\ Viewport' = Viewport]_vars

\* an inpainting call failed while the mask held strokes: they are still there
C11_Witness ==
    /\ lastOp = "failure"
    /\ activeTool = "inpainting"
    /\ imageEl # NoImage
    /\ maskPainted
    /\ error
    /\ ~isLoading
    /\ calls = <<>>

\* C12: a stamp goes into the mask only while the active tool is
\* 'inpainting', whatever the order of presses, moves, releases and tool
\* switches: no handler stamps a circle, and the mask does not go from empty
\* to painted, with another tool or none active.
C12_PaintOnlyWithPaintTool ==
    [][(stamps' > 0 \/ (maskPainted' /\ ~maskPainted))
          => (activeTool = "inpainting" /\ activeTool' = "inpainting")]_vars

\* a pointer move in a stroke that was begun before the tool was switched
\* away: nothing is stamped
C12_Witness ==
    /\ lastOp = "draw"
    /\ activeTool \in {"expand", "resize", "background", NoTool}
    /\ isDrawing
    /\ lastPoint # NoPoint
    /\ stamps = 0

\* C13: the mask is empty after every switch of the active tool away from
\* 'inpainting' and after every inpainting call that succeeded.
C13_MaskClearedOnSwitchAndSubmit ==
    [][/\ (activeTool = "inpainting" /\ activeTool' # "inpainting") => ~maskPainted'
       /\ (lastOp' = "result" /\ calls = <<"edit">>) => ~maskPainted']_vars

\* C14: at most one external-service call is in flight, and while one is in
\* flight isLoading is set, so that no edit action (inpainting, expansion or
\* resize fill, background, relight, sky, text removal, upscale) starts another.
C14_OneCallInFlight ==
    /\ Len(calls) <= 1
    /\ calls # <<>> => isLoading

\* a call is in flight and the user has moved on to another tool, whose
\* submit button is disabled
C14_Witness ==
    /\ calls = <<"edit">>
    /\ isLoading
    /\ lastOp = "toggle"
    /\ activeTool = "background"

\* C15: getCompositeImageWithMask and getFinalExpandedImage leave the source
\* image, the loads under way, imageDrawRect, canvasRect and the mask as they
\* were, and the same export called again right after returns the same result.
C15_ExportsPure ==
    [][lastOp' \in {"edit", "expand"} =>
          /\ Viewport' = Viewport
          /\ pending' = pending
          /\ container' = container
          /\ lastOp' = "edit" => getCompositeImageWithMask' = out'
          /\ lastOp' = "expand" => getFinalExpandedImage' = out']_vars

\* the composite export of a painted mask: the strokes are still in the mask
C15_Witness ==
    /\ lastOp = "edit"
    /\ out.status = "ok"
    /\ out.mask
    /\ maskPainted
    /\ calls = <<"edit">>

\* C16: after an image load, after a container resize with an image loaded
\* and after reset() with an image loaded, imageDrawRect and canvasRect both
\* equal fitImageToContainer of the loaded image and the current container,
\* whatever canvasRect was before.
C16_RefitOnLoadResizeReset ==
    (lastOp \in {"load", "resize", "reset"} /\ imageEl # NoImage) =>
        /\ imageDrawRect = fitImageToContainer(imageEl, container)
        /\ canvasRect = fitImageToContainer(imageEl, container)

\* reset() while the reverted image is still loading: both rectangles are the
\* fit of the image on the canvas
C16_Witness ==
    /\ lastOp = "reset"
    /\ imageEl # NoImage
    /\ image # imageEl
    /\ image \in pending
    /\ canvasRect = fitImageToContainer(imageEl, container)

\* the handlers behind the user's edits of the canvas rectangle
CanvasEdits == {"press", "drag", "release", "aspect", "setSize"}

\* C17: a drag move on any handle, setAspectRatio and setExplicitCanvasSize
\* leave imageDrawRect unchanged, and every other handler that runs with an
\* image loaded leaves imageDrawRect at the fit of that image to the
\* container: the image is always drawn at its fitted rectangle.
C17_ImageRectNotEditable ==
    [][/\ lastOp' \in CanvasEdits => imageDrawRect' = imageDrawRect
       /\ (lastOp' \notin CanvasEdits /\ imageEl' # NoImage)
             => imageDrawRect' = fitImageToContainer(imageEl', container')]_vars

\* a drag that took canvasRect away from the image's rectangle
C17_Witness ==
    /\ lastOp = "drag"
    /\ imageEl # NoImage
    /\ canvasRect # imageDrawRect
    /\ imageDrawRect = fitImageToContainer(imageEl, container)

\* n is v rounded to an integer: it differs from v by less than one
RoundedTo(n, v) == RLt(R(n - 1), v) /\ RLt(v, R(n + 1))

C19_MaskNotCarriedOver ==
    [][/\ lastOp' = "result" =>
             \A k \in 1..MaxCalls, i \in Images :
                ServiceReturns(k, i) => (image' = i /\ i \in pending')
       /\ lastOp' = "load" =>
             /\ ~maskPainted'
             /\ \A i \in Images : ImageLoaded(i) => imageEl' = i
       /\ (lastOp' = "reset" /\ imageEl # NoImage) => ~maskPainted']_vars

\* an expansion succeeded while the mask held strokes painted on the previous
\* image; the returned image is about to load
C19_Witness ==
    /\ lastOp = "result"
    /\ maskPainted
    /\ image \in pending
    /\ ~isOriginal
    /\ imageEl # NoImage

\* C20: no handler changes originalImage, so it stays the image the pane was
\* opened with; Revert sets the src back to it and starts its load, and
\* resets imageDrawRect and canvasRect to the fit of the image on the canvas.
C20_RevertToOriginal ==
    [][/\ originalImage' = originalImage
       /\ lastOp' = "reset" =>
             /\ image' = originalImage
             /\ isOriginal'
             /\ originalImage \in pending'
             /\ imageEl # NoImage =>
                   /\ imageDrawRect' = fitImageToContainer(imageEl, container)
                   /\ canvasRect' = fitImageToContainer(imageEl, container)]_vars

\* Revert after an edit that returned an image of another size than the original
C20_Witness ==
    /\ lastOp = "reset"
    /\ image = originalImage
    /\ imageEl # NoImage
    /\ imageEl # originalImage
    /\ canvasRect = fitImageToContainer(imageEl, container)

\* C23: the mask is painted only during a stroke that began with a press
\* and has seen no release or leave since: in every interleaving of press,
\* move, release, leave and tool switches, a pointer move with no button
\* pressed stamps nothing and leaves the mask as it was.
C23_PaintOnlyWhilePressed ==
    [][(lastOp' = "draw" /\ ~pressed)
          => (stamps' = 0 /\ maskPainted' = maskPainted)]_vars

RightEdge(rect)  == RAdd(rect.x, rect.width)
BottomEdge(rect) == RAdd(rect.y, rect.height)

\* C24 as stated: a drag move keeps the edge opposite to the handle where
\* it was, for every pointer position: the right edge for a handle
\* containing 'l', the bottom edge for 't', the x origin for 'r' and the
\* y origin for 'b'.
C24_OppositeEdgeFixed ==
    [][lastOp' = "drag" =>
          /\ includes(isDragging, "l")
                => RightEdge(canvasRect') = RightEdge(canvasRect)
          /\ includes(isDragging, "t")
                => BottomEdge(canvasRect') = BottomEdge(canvasRect)
          /\ includes(isDragging, "r") => canvasRect'.x = canvasRect.x
          /\ includes(isDragging, "b") => canvasRect'.y = canvasRect.y]_vars

\* C24, amended: a drag move keeps the right edge for a handle containing
\* 'l' and the bottom edge for 't' for every pointer position that leaves
\* the rectangle at least 2 * HANDLE_SIZE wide (high) between the pointer
\* and that edge, that is, whenever the minimum-size clamp is not
\* triggered on that axis; for 'r' and 'b' the x and y origin are kept for
\* every pointer position.  The new x (y) of an 'l' ('t') drag is the
\* pointer's.
C24_OppositeEdgeFixedUnlessClamped ==
    [][lastOp' = "drag" =>
          /\ (/\ includes(isDragging, "l")
              /\ RGe(RSub(RightEdge(canvasRect), canvasRect'.x), MinSize))
                => RightEdge(canvasRect') = RightEdge(canvasRect)
          /\ (/\ includes(isDragging, "t")
              /\ RGe(RSub(BottomEdge(canvasRect), canvasRect'.y), MinSize))
                => BottomEdge(canvasRect') = BottomEdge(canvasRect)
          /\ includes(isDragging, "r") => canvasRect'.x = canvasRect.x
          /\ includes(isDragging, "b") => canvasRect'.y = canvasRect.y]_vars

\* the left handle of the fitted 800x600 image dragged to x = 60 in the
\* 400x400 container: the right edge stays at 400
C24_Witness ==
    /\ lastOp = "drag"
    /\ isDragging = "l"
    /\ canvasRect = Rect(60, 50, 340, 300)

\* C25: a drag changes canvasRect only while the active tool is 'expand'
\* or 'resize': no handle becomes active under another tool, and in every
\* interleaving of handle press, pointer move, release and tool switches
\* no pointer move changes canvasRect under another tool.
C25_DragOnlyWhileExpandable ==
    [][/\ (isDragging = "none" /\ isDragging' # "none") => isExpandable
       /\ (lastOp' = "drag" /\ ~isExpandable) => canvasRect' = canvasRect]_vars

\* C26: the strokes of a non-empty mask were all painted under the current
\* imageDrawRect: no step leaves a painted mask behind while it replaces
\* imageDrawRect, and an image load, a container resize and a reset with
\* an image loaded all leave the mask empty.
C26_MaskPaintedUnderCurrentRect ==
    [][/\ imageDrawRect' # imageDrawRect => ~maskPainted'
       /\ (lastOp' \in {"load", "resize", "reset"} /\ imageEl' # NoImage)
             => ~maskPainted']_vars

\* a reset in the middle of a stroke, whose first stamp is gone
C26_Witness ==
    /\ lastOp = "reset"
    /\ imageEl # NoImage
    /\ isDrawing
    /\ ~maskPainted

\* C27: every edit action started through executeEditAction returns
\* isLoading to false, whether the call succeeds, fails or the export
\* throws, given that the call settles; a success leaves the result as the
\* image (a new src to load) with no error shown, a failure and a throwing
\* export leave an error shown and the image as it was.
C27_EditActionSettles ==
    /\ isLoading ~> ~isLoading
    /\ [][/\ (lastOp' = "result")
              => (~isLoading' /\ ~error' /\ ~isOriginal' /\ image' \in pending')
          /\ (lastOp' = "failure")
              => (~isLoading' /\ error' /\ image' = image)
          /\ (lastOp' \in {"edit", "expand", "imageEdit"} /\ out'.status = "error")
              => (~isLoading' /\ error' /\ image' = image)
          /\ (lastOp' \in {"edit", "expand", "imageEdit"} /\ out'.status # "error")
              => (isLoading' /\ ~error' /\ calls' # <<>>)]_vars

\* a call that succeeded after an earlier one had failed: the spinner is
\* gone and the earlier error is no longer shown
C27_Witness ==
    /\ lastOp = "result"
    /\ ~isLoading
    /\ ~error
    /\ calls = <<>>
    /\ ~isOriginal

C22_ResizeKeepsInk ==
    [][lastOp' = "sketchResize" =>
          /\ \A p \in sketch.ink :
                Inside(p, sketch'.width, sketch'.height) => p \in sketch'.ink
          /\ (sketch'.width = sketch.width /\ sketch'.height = sketch.height)
                => sketch' = sketch]_vars

\* a canvas one pixel wide after a resize, with its two pixels inked
C22_Witness ==
    /\ lastOp = "sketchResize"
    /\ sketch.width = 1
    /\ sketch.height = 2
    /\ sketch.ink = {<<0, 0>>, <<0, 1>>}

\* C28: in App, after any sequence of mode changes and image-ready events,
\* currentImage is non-null only while mode is 'edit': a switch to another
\* mode clears it, and an image-ready event sets the mode to 'edit'.
C28_ImageOnlyInEditMode ==
    app.currentImage # NoUrl => app.mode = "edit"

\* a generation answered while its pane was displayed: the App shows the
\* generated image in the editor
C28_Witness ==
    /\ lastOp = "generated"
    /\ served.live
    /\ app.mode = "edit"
    /\ app.currentImage \in Generated

\* C29: a generation response (text-to-image, doodle) affects the App only
\* if the pane that issued the request is the displayed mode when the
\* response arrives: a response that arrives after the user switched mode
\* changes neither mode nor currentImage.
C29_LateResponseIgnored ==
    [][(/\ lastOp' = "generated"
        /\ served'.pane # app.mode)
          => app' = app]_vars

\* C30: in the mockup and vectorize panes the displayed result derives from
\* the currently loaded source image, in every interleaving of uploads and
\* requests: a non-null resultImage (svgCode) is the result for the current
\* designImage (sourceImage).
C30_ResultOfCurrentSource ==
    /\ mockupPane.resultImage # NoUrl
          => mockupPane.resultImage = ResultOf(mockupPane.designImage)
    /\ vectorizePane.svgCode # NoUrl
          => vectorizePane.svgCode = ResultOf(vectorizePane.sourceImage)

====
